---- MODULE Spec2Model ----
(***************************************************************************)
(* Model of idaes/commands/extensions.py: the command-line front end that  *)
(* fetches, hashes and reports on the IDAES binary extensions.             *)
(*                                                                         *)
(* One behaviour is one run of one sub-command.  Standard output is the    *)
(* sequence `out` (one element per click.echo / print call), calls to the  *)
(* download collaborator are logged in `calls`, files opened for reading   *)
(* in `reads`.  Results of collaborators that live outside this file       *)
(* (download_binaries, the platform probe, open()) are inputs drawn from   *)
(* small sets.                                                             *)
(***************************************************************************)
EXTENDS Integers, Sequences, FiniteSets, TLC

VARIABLES pc, cmd, env, out, calls, reads, result, ret, files, manifests, prevManifests, runs

vars == <<pc, cmd, env, out, calls, reads, result, ret, files, manifests, prevManifests, runs>>

cliVars == <<pc, cmd, env, out, calls, reads, result, ret>>

diskVars == <<files, manifests, prevManifests, runs>>

(***************************************************************************)
(* Bounds                                                                  *)
(***************************************************************************)
MaxLineLen == 2

MaxDest == 2

MaxRuns == 2

NumContents == 2

(***************************************************************************)
(* Values                                                                  *)
(***************************************************************************)
None == "<None>"

Absent == <<"<FileNotFoundError>">>

NoFile == <<"<no file>">>

Returned == "returned"

UnsupportedPlatformError == "UnsupportedPlatformError"

UnboundLocalError == "UnboundLocalError"

FileNotFoundError == "FileNotFoundError"

DownloadError == "DownloadError"

(***************************************************************************)
(* String helpers                                                          *)
(***************************************************************************)
RECURSIVE Repeat(_, _)
Repeat(s, n) == IF n <= 0 THEN "" ELSE s \o Repeat(s, n - 1)

RECURSIVE JoinChars(_)
JoinChars(cs) == IF cs = <<>> THEN "" ELSE Head(cs) \o JoinChars(Tail(cs))

RECURSIVE JoinWith(_, _)
JoinWith(ss, sep) ==
    IF ss = <<>> THEN ""
    ELSE IF Len(ss) = 1 THEN ss[1]
    ELSE ss[1] \o sep \o JoinWith(Tail(ss), sep)

Max(S) == CHOOSE m \in S : \A x \in S : x <= m

Range(f) == {f[x] : x \in DOMAIN f}

Whitespace == {" ", "\n"}

\* file.readline(): the prefix up to and including the first newline
RECURSIVE readline(_)
readline(cs) ==
    IF cs = <<>> THEN <<>>
    ELSE IF Head(cs) = "\n" THEN <<"\n">>
    ELSE <<Head(cs)>> \o readline(Tail(cs))

RECURSIVE lstrip(_)
lstrip(cs) ==
    IF cs = <<>> THEN <<>>
    ELSE IF Head(cs) \in Whitespace THEN lstrip(Tail(cs))
    ELSE cs

RECURSIVE rstrip(_)
rstrip(cs) ==
    IF cs = <<>> THEN <<>>
    ELSE IF cs[Len(cs)] \in Whitespace THEN rstrip(SubSeq(cs, 1, Len(cs) - 1))
    ELSE cs

\* str.strip()
strip(cs) == rstrip(lstrip(cs))

\* f"{s:14}": left-justified, padded with spaces to the width, never cut
ljust(s, w) == s \o Repeat(" ", w - Len(s))

\* f"{s:>w}": right-justified
rjust(s, w) == Repeat(" ", w - Len(s)) \o s

PathSeparated == {"./", "rel/", "/alt/", "/idaes/bin/"}

\* os.path.join(a, b) for a relative b
os_path_join(a, b) ==
    IF a = "" THEN b
    ELSE IF a \in PathSeparated THEN a \o b
    ELSE a \o "/" \o b

(***************************************************************************)
(* idaes.config: static catalogs and alias tables                          *)
(***************************************************************************)
base_platforms == <<"ubuntu20-x86_64", "macos-arm64">>

binary_distro_map == ("ubuntu20.04" :> "ubuntu20") @@ ("darwin" :> "macos")

binary_arch_map == ("amd64" :> "x86_64") @@ ("aarch64" :> "arm64")

\* name of the extra, then the platforms it declares support for
extra_binaries == << <<"petsc", {"ubuntu20-x86_64", "macos-arm64"}>>,
                     <<"ipopt-extra", {"ubuntu20-x86_64"}>> >>

default_binary_release == "3.4.2"

bin_directory == "/idaes/bin"

Unrecognized == "unrecognized"

canonical_distro(raw) ==
    IF raw \in DOMAIN binary_distro_map THEN binary_distro_map[raw]
    ELSE IF raw \in Range(binary_distro_map) THEN raw
    ELSE Unrecognized

canonical_arch(raw) ==
    IF raw \in DOMAIN binary_arch_map THEN binary_arch_map[raw]
    ELSE IF raw \in Range(binary_arch_map) THEN raw
    ELSE Unrecognized

\* lexicographic order of the names that print_build_info sorts
StrOrder == <<"aarch64", "amd64", "arm64", "darwin", "macos",
              "ubuntu20", "ubuntu20.04", "x86_64">>

StrRank(s) == CHOOSE i \in 1..Len(StrOrder) : StrOrder[i] = s

RECURSIVE sorted(_)
sorted(S) ==
    IF S = {} THEN <<>>
    ELSE LET m == CHOOSE x \in S : \A y \in S : StrRank(x) <= StrRank(y)
         IN <<m>> \o sorted(S \ {m})

(***************************************************************************)
(* Inputs                                                                  *)
(***************************************************************************)
BOOL == {TRUE, FALSE}

RawPlatforms == {"ubuntu20.04", "ubuntu20", "darwin", "macos", "plan9"}

RawArchs == {"amd64", "x86_64", "aarch64", "arm64", "mips"}

Chars == {"3", "\n"}

RECURSIVE SeqsUpTo(_, _)
SeqsUpTo(S, n) ==
    IF n = 0 THEN {<<>>}
    ELSE LET shorter == SeqsUpTo(S, n - 1)
         IN shorter \cup {Append(s, c) : s \in {t \in shorter : Len(t) = n - 1}, c \in S}

\* what open()/read gives: the characters of the file, or FileNotFoundError
FileResults == SeqsUpTo(Chars, MaxLineLen) \cup {Absent}

(***************************************************************************)
(* Reporting helpers                                                       *)
(***************************************************************************)
width == 65

\* "-" * width and "=" * width
DashRule == Repeat("-", width)

EqualsRule == Repeat("=", width)

print_header(title) == << DashRule, "IDAES Extensions " \o title, EqualsRule >>

print_footer == << "", EqualsRule >>

NoVersionFile == "no version file found"

\* lines 55-59 and 62-66: v, first the path of the file, after the try/except
\* around open(v).readline().strip()
version_of_keeps_path(v, f) == IF f = Absent THEN v ELSE JoinChars(strip(readline(f)))

version_of(v, f) == IF f = Absent THEN NoVersionFile ELSE JoinChars(strip(readline(f)))

\* solversFile and libFile are what opening the two version files gives
print_extensions_version(library_only, bin_dir, solversFile, libFile) ==
    LET dir == IF bin_dir = None THEN bin_directory ELSE bin_dir
        sv == os_path_join(dir, "version_solvers.txt")
        lv == os_path_join(dir, "version_lib.txt")
        solvers == IF ~library_only
                   THEN [o |-> << "Solvers:  v" \o version_of(sv, solversFile) >>,
                         r |-> << sv >>]
                   ELSE [o |-> <<>>, r |-> <<>>]
        lib == [o |-> << "Library:  v" \o version_of(lv, libFile) >>, r |-> << lv >>]
    IN [out   |-> print_header("Build Versions") \o solvers.o \o lib.o \o print_footer,
        reads |-> solvers.r \o lib.r,
        ret   |-> 0]

\* f.readlines(): the file cut after each newline
RECURSIVE readlines(_)
readlines(cs) ==
    IF cs = <<>> THEN <<>>
    ELSE LET l == readline(cs)
         IN <<l>> \o readlines(SubSeq(cs, Len(l) + 1, Len(cs)))

print_license(licenseFile) ==
    LET body == IF licenseFile = Absent
                THEN << "no license file found" >>
                ELSE [i \in 1..Len(readlines(licenseFile)) |->
                          JoinChars(strip(readlines(licenseFile)[i]))]
    IN [out   |-> print_header("License Information") \o body \o <<"">> \o print_footer,
        reads |-> << os_path_join(bin_directory, "license.txt") >>,
        ret   |-> 0]

\* the canonical names of an alias table, each with its aliases
rmap(data) == [v \in Range(data) |-> {k \in DOMAIN data : data[k] = v}]

alias_lines(name, data) ==
    LET rm == rmap(data)
        w == Max({Len(n) : n \in DOMAIN rm})
        keys == sorted(DOMAIN rm)
    IN << "\n" \o name \o " aliases:" >> \o
       [i \in 1..Len(keys) |->
            "    " \o rjust(keys[i], w) \o ": " \o JoinWith(sorted(rm[keys[i]]), ", ")]

\* lines 86-107: everything print_build_info prints before it probes the system
build_info_head ==
    print_header("Build Information")
    \o << "\nAll Builds (Platform-Architecture):" >>
    \o [i \in 1..Len(base_platforms) |-> "   " \o base_platforms[i]]
    \o alias_lines("Platform", binary_distro_map)
    \o alias_lines("Architecture", binary_arch_map)
    \o << "\nCurrent system information:" >>

UnsupportedLine == "   !! Unsupported platform/architecture combination"

\* line 115
has_build_of_raw(platform, arch, to_build) ==
    (platform \o "-" \o arch) \in Range(base_platforms)

has_build_of(platform, arch, to_build) == to_build \in Range(base_platforms)

\* lines 117 and 119
alias_always(raw, canonical) == " -> " \o canonical

alias_of(raw, canonical) == IF canonical = raw THEN "" ELSE " -> " \o canonical

\* lines 111-126: the report for the detected raw platform and machine()
system_info(platform, arch) ==
    LET to_platform == canonical_distro(platform)
        to_mach == canonical_arch(arch)
        to_build == to_platform \o "-" \o to_mach
        has_build == has_build_of(platform, arch, to_build)
        palias == alias_of(platform, to_platform)
        aalias == alias_of(arch, to_mach)
    IN << "       Platform: " \o platform \o palias,
          "   Architecture: " \o arch \o aalias,
          IF has_build THEN "      Use build: " \o to_build ELSE UnsupportedLine >>

\* probe is the raw platform _get_arch_and_platform(fd, "auto") returns, or
\* UnsupportedPlatformError when it raises; arch is machine()
print_build_info(probe, arch) ==
    IF probe = UnsupportedPlatformError
    THEN [out |-> build_info_head, result |-> UnsupportedPlatformError]
    ELSE [out |-> build_info_head \o system_info(probe, arch) \o print_footer,
          result |-> Returned]

(***************************************************************************)
(* get-extensions                                                          *)
(***************************************************************************)
GetExtensionsArgs ==
    [release : {None, "4.0"}, url : {None, "https://example.org/rel"},
     insecure : BOOL, cacert : {None, "ca.pem"}, verbose : BOOL,
     distro : {"auto", "plan9"}, nochecksum : BOOL, library_only : BOOL,
     no_download : BOOL, info : BOOL, extras_only : BOOL,
     extra : {<<>>, <<"petsc">>}, to : {None, "/alt"}]

DestKeys == <<"lib", "solvers", "petsc", "ipopt-extra">>

\* the mapping download_binaries returns, as its items() in order
DestMap(n) == [j \in 1..n |-> [k |-> DestKeys[j], i |-> "/dest/" \o DestKeys[j]]]

DestMaps == {DestMap(n) : n \in 0..MaxDest}

NoMessage == ""

\* what the call of download_binaries does: return d, raise
\* UnsupportedPlatformError(e), or raise some other error.  The mapping is
\* looked at only after a dry run, so it is varied only there.
DownloadResults(no_download) ==
    {[kind |-> "ok", d |-> d, e |-> NoMessage] :
         d \in IF no_download THEN DestMaps ELSE {<<>>}}
    \cup {[kind |-> UnsupportedPlatformError, d |-> <<>>, e |-> "no build for plan9"],
          [kind |-> DownloadError, d |-> <<>>, e |-> "connection refused"]}

NoInput ==
    [probe |-> "ubuntu20", arch |-> "x86_64",
     dl |-> [kind |-> "ok", d |-> <<>>, e |-> NoMessage],
     solversFile |-> Absent, libFile |-> Absent, licenseFile |-> Absent]

\* lines 183-185: the default release is used only if neither a release
\* nor a url is given
effective_release_without_default(a) == a.release

effective_release(a) ==
    IF a.url = None /\ a.release = None THEN default_binary_release ELSE a.release

\* line 186
source_conflict_never(a) == a.url # None /\ effective_release(a) = None

source_conflict(a) == a.url # None /\ effective_release(a) # None

\* line 188
source_given(a) == a.url # None \/ effective_release(a) # None

\* the results of the calls get_extensions makes for arguments a
GetExtensionsInputs(a) ==
    IF a.info
    THEN {[NoInput EXCEPT !.probe = p, !.arch = m] :
              p \in RawPlatforms \cup {UnsupportedPlatformError}, m \in RawArchs}
    ELSE IF source_conflict(a)
    THEN {NoInput}
    ELSE IF source_given(a)
    THEN {[NoInput EXCEPT !.dl = r, !.solversFile = sf, !.libFile = lf] :
              r \in DownloadResults(a.no_download),
              sf \in IF a.library_only \/ a.no_download THEN {Absent} ELSE FileResults,
              lf \in IF a.no_download THEN {Absent} ELSE FileResults}
    ELSE {NoInput}

ConflictMessage == "\n* You must provide either a release or url not both."

NoSourceMessage == "\n* You must provide a download URL for IDAES binary files."

cmd_name == "idaes get-extensions"

Guidance ==
    "Use the command '" \o cmd_name \o " --distro <os>' to specify an OS distribution\n"
    \o "Use the command '" \o cmd_name \o " --info' to see supported platforms"

download_call(a, at) ==
    [f |-> "download_binaries", at |-> at,
     release |-> effective_release(a), url |-> a.url, insecure |-> a.insecure,
     cacert |-> a.cacert, verbose |-> a.verbose, distro |-> a.distro,
     nochecksum |-> a.nochecksum, library_only |-> a.library_only,
     no_download |-> a.no_download, extras_only |-> a.extras_only,
     extra |-> a.extra, alt_path |-> a.to]

Quiet == [out |-> <<>>, calls |-> <<>>, reads |-> <<>>, result |-> Returned, ret |-> None]

\* lines 180-182
info_branch(a, i) ==
    LET r == print_build_info(i.probe, i.arch)
    IN [Quiet EXCEPT !.out = r.out, !.result = r.result]

\* lines 206-214: the handler of UnsupportedPlatformError
on_unsupported_without_guidance(e) == << "", e, "" >>

on_unsupported(e) == << "", e, "", Guidance >>

\* lines 215-220: what follows "Done"
report_forgets_to(a, i) ==
    IF a.no_download
    THEN [Quiet EXCEPT !.out = [j \in 1..Len(i.dl.d) |->
                                    ljust(i.dl.d[j].k, 14) \o ": " \o i.dl.d[j].i]]
    ELSE LET v == print_extensions_version(a.library_only, None,
                                           i.solversFile, i.libFile)
         IN [Quiet EXCEPT !.out = v.out, !.reads = v.reads, !.ret = v.ret]

report_after_download(a, i) ==
    IF a.no_download
    THEN [Quiet EXCEPT !.out = [j \in 1..Len(i.dl.d) |->
                                    ljust(i.dl.d[j].k, 14) \o ": " \o i.dl.d[j].i]]
    ELSE LET v == print_extensions_version(a.library_only, a.to,
                                           i.solversFile, i.libFile)
         IN [Quiet EXCEPT !.out = v.out, !.reads = v.reads, !.ret = v.ret]

\* lines 183-222
fetch_branch(a, i) ==
    IF source_conflict(a)
    THEN [Quiet EXCEPT !.out = << ConflictMessage >>]
    ELSE IF source_given(a)
    THEN LET started == << "Getting files..." >>
             call == << download_call(a, Len(started)) >>
         IN IF i.dl.kind = UnsupportedPlatformError
            THEN [Quiet EXCEPT !.out = started \o on_unsupported(i.dl.e),
                               !.calls = call]
            ELSE IF i.dl.kind # "ok"
            THEN [Quiet EXCEPT !.out = started, !.calls = call, !.result = i.dl.kind]
            ELSE LET r == report_after_download(a, i)
                 IN [r EXCEPT !.out = started \o << "Done" >> \o r.out,
                              !.calls = call]
    ELSE [Quiet EXCEPT !.out = << NoSourceMessage >>]

get_extensions_info_falls_through(a, i) ==
    IF a.info
    THEN LET r == info_branch(a, i)
             f == fetch_branch(a, i)
         IN IF r.result = Returned THEN [f EXCEPT !.out = r.out \o f.out] ELSE r
    ELSE fetch_branch(a, i)

get_extensions(a, i) ==
    IF a.info THEN info_branch(a, i) ELSE fetch_branch(a, i)

Finish(name, a, i, r) ==
    /\ pc' = "done"
    /\ cmd' = [name |-> name, args |-> a]
    /\ env' = i
    /\ out' = r.out
    /\ calls' = r.calls
    /\ reads' = r.reads
    /\ result' = r.result
    /\ ret' = r.ret

GetExtensions ==
    /\ pc = "idle"
    /\ \E a \in GetExtensionsArgs : \E i \in GetExtensionsInputs(a) :
           Finish("get-extensions", a, i, get_extensions(a, i))
    /\ UNCHANGED diskVars

(***************************************************************************)
(* bin-platform, extensions-license, extensions-version                    *)
(***************************************************************************)
\* download_bin._get_arch_and_platform(fd, distro): the platform to resolve,
\* or UnsupportedPlatformError when the probe raises it
get_arch_and_platform(distro, probe) ==
    IF probe = UnsupportedPlatformError THEN UnsupportedPlatformError
    ELSE IF distro = "auto" THEN probe
    ELSE distro

\* download_bin._get_release_platform(platform): the build identifier, or
\* UnsupportedPlatformError when it is not in the catalog
get_release_platform(platform, arch) ==
    LET build == canonical_distro(platform) \o "-" \o canonical_arch(arch)
    IN IF build \in Range(base_platforms) THEN build ELSE UnsupportedPlatformError

NoBinariesMessage(platform) ==
    "No supported binaries found for " \o platform \o ". "
    \o "Use the command 'idaes get-extensions --info' to see supported platforms"

bin_platform(distro, i) ==
    LET platform == get_arch_and_platform(distro, i.probe)
    IN IF platform = UnsupportedPlatformError
       \* the handler formats `platform`, which the failed call never bound
       THEN [Quiet EXCEPT !.result = UnboundLocalError]
       ELSE LET build == get_release_platform(platform, i.arch)
            IN IF build = UnsupportedPlatformError
               THEN [Quiet EXCEPT !.out = << NoBinariesMessage(platform) >>]
               ELSE [Quiet EXCEPT !.out = << build >>]

BinPlatform ==
    /\ pc = "idle"
    /\ \E distro \in {"auto"} \cup RawPlatforms :
       \E p \in RawPlatforms \cup {UnsupportedPlatformError}, m \in RawArchs :
           LET i == [NoInput EXCEPT !.probe = p, !.arch = m]
           IN Finish("bin-platform", [distro |-> distro], i, bin_platform(distro, i))
    /\ UNCHANGED diskVars

extensions_license(licenseFile) ==
    LET r == print_license(licenseFile)
    IN [Quiet EXCEPT !.out = r.out, !.reads = r.reads, !.ret = r.ret]

ExtensionsLicense ==
    /\ pc = "idle"
    /\ \E lf \in FileResults :
           Finish("extensions-license", <<>>, [NoInput EXCEPT !.licenseFile = lf],
                  extensions_license(lf))
    /\ UNCHANGED diskVars

extensions_version(solversFile, libFile) ==
    LET r == print_extensions_version(FALSE, None, solversFile, libFile)
    IN [Quiet EXCEPT !.out = r.out, !.reads = r.reads, !.ret = r.ret]

ExtensionsVersion ==
    /\ pc = "idle"
    /\ \E sf \in FileResults, lf \in FileResults :
           LET i == [NoInput EXCEPT !.solversFile = sf, !.libFile = lf]
           IN Finish("extensions-version", <<>>, i,
                     extensions_version(sf, lf))
    /\ UNCHANGED diskVars

(***************************************************************************)
(* hash-extensions                                                         *)
(***************************************************************************)
RECURSIVE Concat(_)
Concat(ss) == IF ss = <<>> THEN <<>> ELSE Head(ss) \o Concat(Tail(ss))

BasePackages == <<"solvers", "lib">>

ExtraNames == {extra_binaries[j][1] : j \in 1..Len(extra_binaries)}

artifact_name(pack, plat) == "idaes-" \o pack \o "-" \o plat \o ".tar.gz"

ReleaseDir == "rel"

\* every archive a release directory may hold
ArtifactPaths ==
    {os_path_join(ReleaseDir, artifact_name(pack, plat)) :
         pack \in Range(BasePackages) \cup ExtraNames, plat \in Range(base_platforms)}

HexDigits == <<"a", "b", "c", "d", "e", "f">>

\* download_bin.hash_file_sha256 of a file with contents c: 64 hex characters
DigestPrefix == Repeat("0", 63)

sha256(c) == DigestPrefix \o HexDigits[c]

\* lines 250-252: the (package, platform) pairs of the first loop nest
base_targets_package_major ==
    Concat([k \in 1..Len(BasePackages) |->
                [p \in 1..Len(base_platforms) |-> <<BasePackages[k], base_platforms[p]>>]])

base_targets ==
    Concat([p \in 1..Len(base_platforms) |->
                [k \in 1..Len(BasePackages) |-> <<BasePackages[k], base_platforms[p]>>]])

\* lines 253-257: the pairs of the second loop nest, unsupported ones skipped
extra_targets ==
    Concat([p \in 1..Len(base_platforms) |->
                LET all == [j \in 1..Len(extra_binaries) |->
                                <<extra_binaries[j][1], base_platforms[p]>>]
                    declared(t) ==
                        \E j \in 1..Len(extra_binaries) :
                            /\ extra_binaries[j][1] = t[1]
                            /\ t[2] \in extra_binaries[j][2]
                IN SelectSeq(all, declared)])

\* _write_hash for each target in turn; the first missing archive ends the run
RECURSIVE write_hashes(_, _, _, _)
write_hashes(targets, path, fs, written) ==
    IF targets = <<>> THEN [data |-> written, result |-> Returned]
    ELSE LET f == artifact_name(Head(targets)[1], Head(targets)[2])
             full == IF path # None THEN os_path_join(path, f) ELSE f
             c == IF full \in DOMAIN fs THEN fs[full] ELSE 0
         IN IF c = 0
            THEN [data |-> written, result |-> FileNotFoundError]
            ELSE write_hashes(Tail(targets), path, fs,
                              written \o << sha256(c), "  ", f, "\n" >>)

hfile_name(release, path) ==
    LET hfile == "sha256sum_" \o release \o ".txt"
    IN IF path # None THEN os_path_join(path, hfile) ELSE hfile

\* the manifest as the sequence of fp.write arguments, and how the run ended
hash_extensions(release, path, fs) ==
    write_hashes(base_targets \o extra_targets, path, fs, <<>>)

HashReleases == {"3.4.2", "4.0"}

HashPaths == {"rel", "rel/"}

HFiles == {hfile_name(r, p) : r \in HashReleases, p \in HashPaths}

HashExtensions ==
    /\ pc = "idle" \/ (cmd.name = "hash-extensions" /\ runs < MaxRuns)
    /\ \E release \in HashReleases, path \in HashPaths :
           LET r == hash_extensions(release, path, files)
               h == hfile_name(release, path)
           IN /\ Finish("hash-extensions", [release |-> release, path |-> path],
                        NoInput, [Quiet EXCEPT !.result = r.result])
              /\ manifests' = [manifests EXCEPT ![h] = r.data]
              /\ prevManifests' = manifests
    /\ runs' = runs + 1
    /\ UNCHANGED files

(***************************************************************************)
(* Specifications                                                          *)
(***************************************************************************)
InitCli ==
    /\ pc = "idle"
    /\ cmd = [name |-> "none", args |-> <<>>]
    /\ env = NoInput
    /\ out = <<>>
    /\ calls = <<>>
    /\ reads = <<>>
    /\ result = "none"
    /\ ret = None
    /\ manifests = [h \in HFiles |-> NoFile]
    /\ prevManifests = [h \in HFiles |-> NoFile]
    /\ runs = 0

\* a command line in an installation whose release directory is empty
Init ==
    /\ InitCli
    /\ files = [f \in ArtifactPaths |-> 0]

Next == GetExtensions \/ BinPlatform \/ ExtensionsLicense \/ ExtensionsVersion

Spec == Init /\ [][Next]_vars

\* a release directory holding any subset of the archives, with any contents
InitHash ==
    /\ InitCli
    /\ files \in [ArtifactPaths -> 0..NumContents]

NextHash == HashExtensions

SpecHash == InitHash /\ [][NextHash]_vars

(***************************************************************************)
(* Properties                                                              *)
(***************************************************************************)
Ran(name) == pc = "done" /\ cmd.name = name

Printed(s) == \E k \in 1..Len(out) : out[k] = s

Count(S) == Cardinality({k \in 1..Len(out) : out[k] \in S})

VersionHeader == "IDAES Extensions Build Versions"

Fetching == Ran("get-extensions") /\ ~cmd.args.info

BothGiven == cmd.args.release # None /\ cmd.args.url # None

NeitherGiven == cmd.args.release = None /\ cmd.args.url = None

NoFetch ==
    /\ calls = <<>>
    /\ reads = <<>>
    /\ ~Printed("Getting files...")
    /\ ~Printed("Done")
    /\ ~Printed(VersionHeader)

\* C1: get-extensions without --info, given both a release and a url, prints
\* the conflict message and returns normally; download_binaries is not
\* called, nothing is read, and none of "Getting files...", "Done", the
\* version report or the dry-run listing is printed, whatever the other
\* options are.
C1_ConflictAborts ==
    (Fetching /\ BothGiven) =>
        /\ result = Returned
        /\ out = << "\n* You must provide either a release or url not both." >>
        /\ NoFetch

C1_Witness ==
    /\ Fetching /\ BothGiven
    /\ cmd.args.no_download /\ cmd.args.library_only /\ cmd.args.to # None
    /\ Printed(ConflictMessage)

\* C2 as stated: get-extensions without --info, given neither a release nor
\* a url, prints an error message and does not call download_binaries.
C2_NeitherIsError ==
    (Fetching /\ NeitherGiven) =>
        /\ calls = <<>>
        /\ Printed(NoSourceMessage) \/ Printed(ConflictMessage)

\* C2: get-extensions without --info, given neither a release nor a url,
\* uses the default release: it prints "Getting files..." and calls
\* download_binaries once with release = default_binary_release and no url;
\* no message about a missing or conflicting source is printed.
C2_DefaultRelease ==
    (Fetching /\ NeitherGiven) =>
        /\ Len(calls) = 1
        /\ calls[1].release = default_binary_release
        /\ calls[1].url = None
        /\ out[1] = "Getting files..."
        /\ ~Printed(NoSourceMessage)
        /\ ~Printed(ConflictMessage)

C2_Witness ==
    /\ Fetching /\ NeitherGiven
    /\ Len(calls) = 1
    /\ Printed("Done")

DownloadRaisedUnsupported ==
    Fetching /\ Len(calls) = 1 /\ env.dl.kind = UnsupportedPlatformError

\* C3: when download_binaries raises UnsupportedPlatformError, get-extensions
\* returns normally after printing the error and then the guidance naming
\* the '--distro <os>' and '--info' commands; it prints neither "Done" nor
\* the dry-run listing nor the version report.
C3_UnsupportedIsReported ==
    DownloadRaisedUnsupported =>
        /\ result = Returned
        /\ out = << "Getting files...", "", env.dl.e, "",
                    "Use the command 'idaes get-extensions --distro <os>' to specify an OS distribution\nUse the command 'idaes get-extensions --info' to see supported platforms" >>
        /\ reads = <<>>
        /\ ret = None

C3_Witness ==
    /\ DownloadRaisedUnsupported
    /\ cmd.args.no_download
    /\ out[3] = "no build for plan9"

NoBinariesLines ==
    {"No supported binaries found for " \o p
         \o ". Use the command 'idaes get-extensions --info' to see supported platforms" :
         p \in RawPlatforms}

Hashed == Ran("hash-extensions") /\ result = Returned

Manifest == manifests[hfile_name(cmd.args.release, cmd.args.path)]

PreviousManifest == prevManifests[hfile_name(cmd.args.release, cmd.args.path)]

ManifestLines == Len(Manifest) \div 4

\* the file name written on line k of the manifest
LineFile(k) == Manifest[4 * k - 1]

NumBaseLines == 2 * Len(base_platforms)

ExtraPairs ==
    {<<extra_binaries[j][1], plat>> : j \in 1..Len(extra_binaries),
                                      plat \in Range(base_platforms)}

Declares(pack, plat) ==
    \E j \in 1..Len(extra_binaries) :
        extra_binaries[j][1] = pack /\ plat \in extra_binaries[j][2]

\* C5: a completed hash-extensions run leaves a manifest of lines
\* '<hash><two spaces>idaes-<package>-<platform>.tar.gz\n': first, platform
\* by platform in catalog order, the solvers and the lib archive; then one
\* line for an extra on a platform exactly if the extra declares the
\* platform; no archive twice; and a second run over the same files writes
\* the same manifest.
C5_ManifestIsFixed ==
    Hashed =>
        /\ Len(Manifest) = 4 * ManifestLines
        /\ \A k \in 1..ManifestLines :
               /\ Manifest[4 * k - 2] = "  "
               /\ Manifest[4 * k] = "\n"
               /\ Manifest[4 * k - 3] = sha256(files["rel/" \o LineFile(k)])
        /\ \A p \in 1..Len(base_platforms) :
               /\ LineFile(2 * p - 1) = "idaes-solvers-" \o base_platforms[p] \o ".tar.gz"
               /\ LineFile(2 * p) = "idaes-lib-" \o base_platforms[p] \o ".tar.gz"
        /\ \A t \in ExtraPairs :
               Cardinality({k \in (NumBaseLines + 1)..ManifestLines :
                                LineFile(k) = "idaes-" \o t[1] \o "-" \o t[2] \o ".tar.gz"})
                   = IF Declares(t[1], t[2]) THEN 1 ELSE 0
        /\ \A k \in (NumBaseLines + 1)..ManifestLines :
               \E t \in ExtraPairs :
                   LineFile(k) = "idaes-" \o t[1] \o "-" \o t[2] \o ".tar.gz"
        /\ \A k, l \in 1..ManifestLines : LineFile(k) = LineFile(l) => k = l
        /\ PreviousManifest # NoFile => Manifest = PreviousManifest

C5_Witness ==
    /\ Hashed
    /\ runs = 2
    /\ PreviousManifest # NoFile
    /\ ManifestLines = 7
    /\ Manifest[1] # Manifest[5]

InfoShown == Ran("get-extensions") /\ cmd.args.info /\ result = Returned

\* the three lines of the report that describe the current system
PlatformLine == out[Len(out) - 4]

ArchitectureLine == out[Len(out) - 3]

VerdictLine == out[Len(out) - 2]

DetectedBuild == canonical_distro(env.probe) \o "-" \o canonical_arch(env.arch)

InCatalog(b) == \E p \in 1..Len(base_platforms) : base_platforms[p] = b

UseBuildLines ==
    {"      Use build: " \o d \o "-" \o m :
         d \in Range(binary_distro_map) \cup {Unrecognized},
         m \in Range(binary_arch_map) \cup {Unrecognized}}

\* C6: in the build information report, for the detected raw platform p and
\* architecture a: 'Use build: <identifier>' is printed exactly if
\* canonical_distro(p)-canonical_arch(a) is in base_platforms, otherwise the
\* unsupported notice is printed, never both and never neither; in the
\* unsupported case the report shows the raw p and a.
C6_SupportedIffInCatalog ==
    InfoShown =>
        /\ Printed("      Use build: " \o DetectedBuild) <=> InCatalog(DetectedBuild)
        /\ Printed(UnsupportedLine) <=> ~InCatalog(DetectedBuild)
        /\ Count(UseBuildLines \cup {UnsupportedLine}) = 1
        /\ ~InCatalog(DetectedBuild) =>
               /\ PlatformLine \in
                      {"       Platform: " \o env.probe,
                       "       Platform: " \o env.probe \o " -> " \o canonical_distro(env.probe)}
               /\ ArchitectureLine \in
                      {"   Architecture: " \o env.arch,
                       "   Architecture: " \o env.arch \o " -> " \o canonical_arch(env.arch)}

C6_Witness ==
    /\ InfoShown
    /\ env.probe = "ubuntu20.04" /\ env.arch = "aarch64"
    /\ VerdictLine = UnsupportedLine

NeedsAlias ==
    canonical_distro(env.probe) # env.probe \/ canonical_arch(env.arch) # env.arch

\* C7: when the detected pair lands in the catalog only after alias
\* translation, the report shows each raw component, followed by
\* ' -> <canonical>' exactly for the components whose canonical value
\* differs, and 'Use build:' with the canonical distro and architecture
\* joined by '-'.
C7_AliasAdjusted ==
    (InfoShown /\ InCatalog(DetectedBuild) /\ NeedsAlias) =>
        /\ canonical_distro(env.probe) # env.probe =>
               PlatformLine = "       Platform: " \o env.probe \o " -> "
                                  \o canonical_distro(env.probe)
        /\ canonical_distro(env.probe) = env.probe =>
               PlatformLine = "       Platform: " \o env.probe
        /\ canonical_arch(env.arch) # env.arch =>
               ArchitectureLine = "   Architecture: " \o env.arch \o " -> "
                                      \o canonical_arch(env.arch)
        /\ canonical_arch(env.arch) = env.arch =>
               ArchitectureLine = "   Architecture: " \o env.arch
        /\ VerdictLine = "      Use build: " \o canonical_distro(env.probe) \o "-"
                             \o canonical_arch(env.arch)

C7_Witness ==
    /\ InfoShown
    /\ env.probe = "ubuntu20.04" /\ env.arch = "x86_64"
    /\ PlatformLine = "       Platform: ubuntu20.04 -> ubuntu20"
    /\ ArchitectureLine = "   Architecture: x86_64"
    /\ VerdictLine = "      Use build: ubuntu20-x86_64"

\* the version strings a report can show: the placeholder, or the stripped
\* first line of a version file
ShownVersions ==
    {NoVersionFile} \cup {JoinChars(v) : v \in SeqsUpTo({"3"}, MaxLineLen)}

SolversLines == {"Solvers:  v" \o v : v \in ShownVersions}

LibraryLines == {"Library:  v" \o v : v \in ShownVersions}

VersionsReported == pc = "done" /\ Printed(VersionHeader)

ReportLibraryOnly == cmd.name = "get-extensions" /\ cmd.args.library_only

\* C8: print_extensions_version returns 0 whichever of the two version
\* files are absent: it prints the Library line always and the Solvers line
\* exactly if library_only is false, with 'no version file found' for each
\* absent file, and then the footer.  print_license prints 'no license file
\* found' and returns 0 when license.txt is absent.
C8_MissingFilesAreReported ==
    /\ VersionsReported =>
           /\ result = Returned
           /\ ret = 0
           /\ Count(LibraryLines) = 1
           /\ Count(SolversLines) = IF ReportLibraryOnly THEN 0 ELSE 1
           /\ env.libFile = Absent => Printed("Library:  vno version file found")
           /\ (~ReportLibraryOnly /\ env.solversFile = Absent) =>
                  Printed("Solvers:  vno version file found")
           /\ out[Len(out) - 2] \in LibraryLines
           /\ out[Len(out)] = EqualsRule
    /\ (Ran("extensions-license") /\ env.licenseFile = Absent) =>
           /\ result = Returned
           /\ ret = 0
           /\ Printed("no license file found")
           /\ out[Len(out)] = EqualsRule

C8_Witness ==
    /\ Ran("extensions-version")
    /\ env.solversFile = Absent
    /\ env.libFile = << "3", "\n" >>
    /\ Printed("Solvers:  vno version file found")
    /\ Printed("Library:  v3")

DownloadReturned == Fetching /\ Len(calls) = 1 /\ env.dl.kind = "ok"

ReportDirectory == IF cmd.args.to = None THEN "/idaes/bin" ELSE cmd.args.to

DryRunLine(j) ==
    env.dl.d[j].k \o Repeat(" ", 14 - Len(env.dl.d[j].k)) \o ": " \o env.dl.d[j].i

\* C9: get-extensions calls download_binaries at most once, after printing
\* "Getting files..."; when the call returns, "Done" is printed next and then
\* exactly one report: with --no-download one line per entry of the returned
\* mapping and no version file is read; otherwise the version report of the
\* directory given by --to (the default bin directory without it), with the
\* library_only flag that was passed to download_binaries.
C9_ReportAfterDownload ==
    /\ Ran("get-extensions") => Len(calls) <= 1
    /\ DownloadReturned =>
           /\ calls[1].at = 1
           /\ out[1] = "Getting files..."
           /\ out[2] = "Done"
           /\ Count({"Getting files...", "Done"}) = 2
           /\ calls[1].library_only = cmd.args.library_only
           /\ calls[1].no_download = cmd.args.no_download
           /\ cmd.args.no_download =>
                  /\ Len(out) = 2 + Len(env.dl.d)
                  /\ \A j \in 1..Len(env.dl.d) : out[2 + j] = DryRunLine(j)
                  /\ reads = <<>>
                  /\ ~Printed(VersionHeader)
           /\ ~cmd.args.no_download =>
                  /\ out[4] = VersionHeader
                  /\ Count({VersionHeader}) = 1
                  /\ Count(SolversLines) = IF cmd.args.library_only THEN 0 ELSE 1
                  /\ reads = (IF cmd.args.library_only THEN <<>>
                              ELSE << ReportDirectory \o "/version_solvers.txt" >>)
                             \o << ReportDirectory \o "/version_lib.txt" >>

C9_Witness ==
    /\ DownloadReturned
    /\ cmd.args.no_download
    /\ Len(env.dl.d) = 2
    /\ out[3] = "lib           : /dest/lib"

InfoAsked == Ran("get-extensions") /\ cmd.args.info

BuildInfoLines ==
    Range(build_info_head) \cup Range(print_footer)
    \cup UseBuildLines \cup {UnsupportedLine}
    \cup UNION {{"       Platform: " \o p,
                  "       Platform: " \o p \o " -> " \o canonical_distro(p)} :
                     p \in RawPlatforms}
    \cup UNION {{"   Architecture: " \o m,
                  "   Architecture: " \o m \o " -> " \o canonical_arch(m)} :
                     m \in RawArchs}

\* C10: with --info get-extensions prints the build information and nothing
\* else: download_binaries is not called, no version file is read, no
\* version report and no release/url message is printed, whatever the other
\* options are; unless the platform probe raises, the command returns.
C10_InfoOnly ==
    InfoAsked =>
        /\ NoFetch
        /\ ret = None
        /\ ~Printed(ConflictMessage)
        /\ ~Printed(NoSourceMessage)
        /\ out[2] = "IDAES Extensions Build Information"
        /\ \A k \in 1..Len(out) : out[k] \in BuildInfoLines
        /\ env.probe # UnsupportedPlatformError =>
               /\ result = Returned
               /\ out[Len(out)] = EqualsRule

C10_Witness ==
    /\ InfoAsked
    /\ BothGiven
    /\ ~cmd.args.no_download
    /\ result = Returned
    /\ Printed("      Use build: macos-arm64")

====
